---- MODULE Spec2Model ----
(***************************************************************************)
(* ECDSA over a short-Weierstrass curve on a prime field, as implemented   *)
(* by src/finite_field.rs, src/ec_generic/elliptic_curve.rs and            *)
(* src/ec_dsa/ecdsa.rs.                                                    *)
(*                                                                         *)
(* Every function of the library is pure; a call either returns a value or *)
(* panics (a failed assert!, a BigUint subtraction below zero, a modpow    *)
(* with a zero modulus).  A panic is modelled as a distinguished result    *)
(* (Panic for scalars, PanicPoint for points, "panic" for booleans) and is *)
(* strict: an operation whose argument panicked panics too, because Rust   *)
(* evaluates the arguments of a call before the call.                      *)
(***************************************************************************)
EXTENDS Integers, Sequences, FiniteSets, TLC

(***************************************************************************)
(* Bounds of the model.                                                    *)
(***************************************************************************)
\* moduli of the field layer range over 1..MaxModulus, operands over 0..MaxModulus
MaxModulus == 13
\* moduli of the curves explored by the curve layer range over 2..MaxCurveModulus
MaxCurveModulus == 7
\* scalars handed to scalar_multiplication on the explored curves: 0..MaxScalar
MaxScalar == 20
\* digests handed to generate_hash_less_than range over 0..MaxDigest,
\* its max over 0..MaxOrder
MaxDigest == 40
MaxOrder == 20

(***************************************************************************)
(* The toy parameters of the tests: y^2 = x^3 + 2x + 2 mod 17, A = (5, 1), *)
(* q = 19.                                                                 *)
(***************************************************************************)
ToyA == 2
ToyB == 2
ToyP == 17
ToyGx == 5
ToyGy == 1
ToyQ == 19

(***************************************************************************)
(* Results of a call that does not return.                                 *)
(***************************************************************************)
Panic == -1

(***************************************************************************)
(* num_bigint primitives used by the library.                              *)
(***************************************************************************)
RECURSIVE Power(_, _, _)
Power(b, e, m) == IF e = 0 THEN 1 % m ELSE (b * Power(b, e - 1, m)) % m

\* BigUint::modpow: panics on a zero modulus, otherwise b^e mod m
modpow(b, e, m) ==
    IF b = Panic \/ e = Panic \/ m = Panic THEN Panic
    ELSE IF m = 0 THEN Panic
    ELSE Power(b % m, e, m)

\* BigUint subtraction: panics when the result would be negative
BigUintSub(x, y) ==
    IF x = Panic \/ y = Panic THEN Panic
    ELSE IF x < y THEN Panic
    ELSE x - y

RECURSIVE bits(_)
\* BigUint::bits: number of bits needed to represent d, 0 for d = 0
bits(d) == IF d = 0 THEN 0 ELSE 1 + bits(d \div 2)

RECURSIVE Pow2(_)
Pow2(n) == IF n = 0 THEN 1 ELSE 2 * Pow2(n - 1)

\* BigUint::bit: whether bit i of d is set
bit(d, i) == (d \div Pow2(i)) % 2 = 1

(***************************************************************************)
(* FiniteField (src/finite_field.rs).                                      *)
(***************************************************************************)
FiniteField_add(c, d, p) ==
    IF c = Panic \/ d = Panic \/ p = Panic THEN Panic
    ELSE IF ~(c < p) THEN Panic
    ELSE IF ~(d < p) THEN Panic
    ELSE modpow(c + d, 1, p)

FiniteField_multiplication(c, d, p) ==
    IF c = Panic \/ d = Panic \/ p = Panic THEN Panic
    ELSE IF ~(c < p) THEN Panic
    ELSE IF ~(d < p) THEN Panic
    ELSE modpow(c * d, 1, p)

\* returns p - c without a final reduction: p for c = 0
FiniteField_inverse_addition(c, p) ==
    IF c = Panic \/ p = Panic THEN Panic
    ELSE IF ~(c < p) THEN Panic
    ELSE BigUintSub(p, c)

FiniteField_subtract(c, d, p) ==
    IF c = Panic \/ d = Panic \/ p = Panic THEN Panic
    ELSE IF ~(c < p) THEN Panic
    ELSE IF ~(d < p) THEN Panic
    ELSE LET d_inverse == FiniteField_inverse_addition(d, p)
         IN  IF d_inverse = Panic THEN Panic
             ELSE IF ~(d_inverse < p) THEN Panic
             ELSE FiniteField_add(c, d_inverse, p)

\* slip: exponent p - 1 in place of p - 2
FiniteField_inverse_multiplication_exponent_off_by_one(c, p) ==
    IF c = Panic \/ p = Panic THEN Panic
    ELSE IF ~(c < p) THEN Panic
    ELSE modpow(c, BigUintSub(p, 1), p)

FiniteField_inverse_multiplication(c, p) ==
    IF c = Panic \/ p = Panic THEN Panic
    ELSE IF ~(c < p) THEN Panic
    ELSE modpow(c, BigUintSub(p, 2), p)

FiniteField_divide(c, d, p) ==
    IF c = Panic \/ d = Panic \/ p = Panic THEN Panic
    ELSE IF ~(c < p) THEN Panic
    ELSE IF ~(d < p) THEN Panic
    ELSE LET d_inverse == FiniteField_inverse_multiplication(d, p)
         IN  IF d_inverse = Panic THEN Panic
             ELSE IF ~(d_inverse < p) THEN Panic
             ELSE FiniteField_multiplication(c, d_inverse, p)

(***************************************************************************)
(* Point and EllipticCurve (src/ec_generic/elliptic_curve.rs).             *)
(***************************************************************************)
Coordinate(x, y) == [tag |-> "Coordinate", x |-> x, y |-> y]
Identity == [tag |-> "Identity", x |-> 0, y |-> 0]
PanicPoint == [tag |-> "Panic", x |-> 0, y |-> 0]

\* EllipticCurve::new
EllipticCurve_new(a, b, p) == [a |-> a, b |-> b, p |-> p]

\* "true", "false", or "panic" when an assertion of the field layer fails
is_on_curve(self, c) ==
    IF c.tag = "Panic" THEN "panic"
    ELSE IF c.tag = "Coordinate" THEN
        LET y_square == modpow(c.y, 2, self.p)
            x_cubed == modpow(c.x, 3, self.p)
            ax == FiniteField_multiplication(self.a, c.x, self.p)
            rhs == FiniteField_add(x_cubed, FiniteField_add(ax, self.b, self.p), self.p)
        IN  IF y_square = Panic \/ rhs = Panic THEN "panic"
            ELSE IF y_square = rhs THEN "true" ELSE "false"
    ELSE "true"

compute_third_point(self, x1, y1, x2, s) ==
    LET s_square == modpow(s, 2, self.p)
        x3 == FiniteField_subtract(FiniteField_subtract(s_square, x1, self.p), x2, self.p)
        y3 == FiniteField_subtract(
                  FiniteField_multiplication(s, FiniteField_subtract(x1, x3, self.p), self.p),
                  y1, self.p)
    IN  IF x3 = Panic \/ y3 = Panic THEN PanicPoint
        ELSE IF ~(x3 < self.p) THEN PanicPoint
        ELSE IF ~(y3 < self.p) THEN PanicPoint
        ELSE Coordinate(x3, y3)

\* slip: the inverse test is made before the equal-points assertion
EllipticCurve_add_inverse_test_first(self, c, d) ==
    IF c.tag = "Panic" \/ d.tag = "Panic" THEN PanicPoint
    ELSE IF is_on_curve(self, c) # "true" THEN PanicPoint
    ELSE IF is_on_curve(self, d) # "true" THEN PanicPoint
    ELSE IF c.tag = "Identity" /\ d.tag = "Coordinate" THEN Coordinate(d.x, d.y)
    ELSE IF c.tag = "Coordinate" /\ d.tag = "Identity" THEN Coordinate(c.x, c.y)
    ELSE IF c.tag = "Coordinate" /\ d.tag = "Coordinate" THEN
        LET y_sum == FiniteField_add(c.y, d.y, self.p)
        IN  IF y_sum = Panic THEN PanicPoint
            ELSE IF y_sum = 0 /\ c.x = d.x THEN Identity
            ELSE IF c = d THEN PanicPoint
            ELSE LET delta_y == FiniteField_subtract(d.y, c.y, self.p)
                     delta_x == FiniteField_subtract(d.x, c.x, self.p)
                     s == FiniteField_divide(delta_y, delta_x, self.p)
                 IN  compute_third_point(self, c.x, c.y, d.x, s)
    ELSE Identity

EllipticCurve_add(self, c, d) ==
    IF c.tag = "Panic" \/ d.tag = "Panic" THEN PanicPoint
    ELSE IF is_on_curve(self, c) # "true" THEN PanicPoint
    ELSE IF is_on_curve(self, d) # "true" THEN PanicPoint
    ELSE IF c = d THEN PanicPoint
    ELSE IF c.tag = "Identity" /\ d.tag = "Coordinate" THEN Coordinate(d.x, d.y)
    ELSE IF c.tag = "Coordinate" /\ d.tag = "Identity" THEN Coordinate(c.x, c.y)
    ELSE IF c.tag = "Coordinate" /\ d.tag = "Coordinate" THEN
        LET y_sum == FiniteField_add(c.y, d.y, self.p)
        IN  IF y_sum = Panic THEN PanicPoint
            ELSE IF y_sum = 0 /\ c.x = d.x THEN Identity
            ELSE LET delta_y == FiniteField_subtract(d.y, c.y, self.p)
                     delta_x == FiniteField_subtract(d.x, c.x, self.p)
                     s == FiniteField_divide(delta_y, delta_x, self.p)
                 IN  compute_third_point(self, c.x, c.y, d.x, s)
    ELSE Identity

EllipticCurve_double(self, c) ==
    IF c.tag = "Panic" THEN PanicPoint
    ELSE IF is_on_curve(self, c) # "true" THEN PanicPoint
    ELSE IF c.tag = "Coordinate" THEN
        IF c.y = 0 THEN Identity
        ELSE LET x_squared == modpow(c.x, 2, self.p)
                 numerator == FiniteField_add(
                                  FiniteField_multiplication(3, x_squared, self.p),
                                  self.a, self.p)
                 denominator == FiniteField_multiplication(2, c.y, self.p)
                 s == FiniteField_divide(numerator, denominator, self.p)
             IN  compute_third_point(self, c.x, c.y, c.x, s)
    ELSE Identity

\* the copy of double kept in src/lib.rs: it has no case for y = 0
lib_EllipticCurve_double(self, c) ==
    IF c.tag = "Panic" THEN PanicPoint
    ELSE IF is_on_curve(self, c) # "true" THEN PanicPoint
    ELSE IF c.tag = "Coordinate" THEN
        LET x1_squared == modpow(c.x, 2, self.p)
            numerator == FiniteField_add(
                             FiniteField_multiplication(3, x1_squared, self.p),
                             self.a, self.p)
            denominator == FiniteField_multiplication(2, c.y, self.p)
            s == FiniteField_divide(numerator, denominator, self.p)
        IN  compute_third_point(self, c.x, c.y, c.x, s)
    ELSE Identity

RECURSIVE scalar_multiplication_loop(_, _, _, _, _)
\* the iterations i, i - 1, ..., 0 of the loop of scalar_multiplication
scalar_multiplication_loop(self, a, d, t, i) ==
    IF i < 0 THEN t
    ELSE LET doubled == EllipticCurve_double(self, t)
             added == IF bit(d, i) THEN EllipticCurve_add(self, doubled, a) ELSE doubled
         IN  scalar_multiplication_loop(self, a, d, added, i - 1)

\* slip: the loop starts at the topmost set bit instead of the bit below it
scalar_multiplication_from_top_bit(self, a, d) ==
    IF a.tag = "Panic" \/ d = Panic THEN PanicPoint
    ELSE IF bits(d) = 0 THEN PanicPoint
    ELSE scalar_multiplication_loop(self, a, d, a, bits(d) - 1)

\* d = 0: `d.bits() - 1` underflows u64; the call panics (overflow checks on) or
\* starts 2^64 - 1 doublings (overflow checks off): it returns no point
scalar_multiplication(self, a, d) ==
    IF a.tag = "Panic" \/ d = Panic THEN PanicPoint
    ELSE IF bits(d) = 0 THEN PanicPoint
    ELSE scalar_multiplication_loop(self, a, d, a, bits(d) - 2)

(***************************************************************************)
(* ECDSA (src/ec_dsa/ecdsa.rs).                                            *)
(***************************************************************************)
ECDSA_new(elliptic_curve, a, q) ==
    [elliptic_curve |-> elliptic_curve, a_generator |-> a, q_order |-> q]

PanicSignature == <<Panic, Panic>>

generate_public_key(self, private_key) ==
    scalar_multiplication(self.elliptic_curve, self.a_generator, private_key)

sign(self, hash, private_key, k_random) ==
    IF hash = Panic \/ private_key = Panic \/ k_random = Panic THEN PanicSignature
    ELSE IF ~(hash < self.q_order) THEN PanicSignature
    ELSE IF ~(private_key < self.q_order) THEN PanicSignature
    ELSE IF ~(k_random < self.q_order) THEN PanicSignature
    ELSE LET R == scalar_multiplication(self.elliptic_curve, self.a_generator, k_random)
         IN  IF R.tag = "Coordinate" THEN
                 LET r == R.x
                     k_inverse == FiniteField_inverse_multiplication(k_random, self.q_order)
                     s1 == FiniteField_add(hash,
                               FiniteField_multiplication(private_key, r, self.q_order),
                               self.q_order)
                     s == FiniteField_multiplication(s1, k_inverse, self.q_order)
                 IN  IF s = Panic THEN PanicSignature ELSE <<r, s>>
             ELSE PanicSignature

\* slip: the digest is reduced modulo max instead of max - 1
generate_hash_less_than_modulo_max(digest, max) ==
    LET reduced == modpow(digest, 1, max)
    IN  IF reduced = Panic THEN Panic ELSE reduced + 1

\* digest is the SHA-256 digest of the message read as a big-endian integer;
\* the hash function itself is outside the library
generate_hash_less_than(digest, max) ==
    LET reduced == modpow(digest, 1, BigUintSub(max, 1))
    IN  IF reduced = Panic THEN Panic ELSE reduced + 1

\* "true", "false", or "panic"
verify(self, hash, public_key, signature) ==
    IF hash = Panic \/ public_key.tag = "Panic" \/ signature = PanicSignature THEN "panic"
    ELSE IF ~(hash < self.q_order) THEN "panic"
    ELSE LET r == signature[1]
             s == signature[2]
             s_inverse == FiniteField_inverse_multiplication(s, self.q_order)
             u1 == FiniteField_multiplication(s_inverse, hash, self.q_order)
             u2 == FiniteField_multiplication(s_inverse, r, self.q_order)
             p == EllipticCurve_add(self.elliptic_curve,
                      scalar_multiplication(self.elliptic_curve, self.a_generator, u1),
                      scalar_multiplication(self.elliptic_curve, public_key, u2))
         IN  IF p.tag = "Coordinate" THEN (IF p.x = r THEN "true" ELSE "false")
             ELSE "panic"

(***************************************************************************)
(* The inputs the calls are explored on.                                   *)
(***************************************************************************)
IsPrime(n) == n > 1 /\ \A k \in 2..(n - 1) : n % k # 0

\* the curve and the ECDSA context every test constructs
ToyCurve == EllipticCurve_new(ToyA, ToyB, ToyP)
ToyGenerator == Coordinate(ToyGx, ToyGy)
ToyECDSA == ECDSA_new(ToyCurve, ToyGenerator, ToyQ)

\* curves (a, b, p) with p prime and 0 <= a, b < p, and the toy curve
Curves ==
    {cv \in [a : 0..(MaxCurveModulus - 1), b : 0..(MaxCurveModulus - 1),
             p : 2..MaxCurveModulus] : IsPrime(cv.p) /\ cv.a < cv.p /\ cv.b < cv.p}
        \cup {ToyCurve}

\* Point values a caller can construct: coordinates are BigUint, so they
\* are not confined to [0, p)
Points(self) ==
    {Identity} \cup {Coordinate(x, y) : x \in 0..(self.p + 1), y \in 0..(self.p + 1)}

(***************************************************************************)
(* State: the last call made on each layer, with its arguments and result, *)
(* and the sign/verify sessions the tests run on the toy context.          *)
(***************************************************************************)
VARIABLES
    f_call,        \* last FiniteField call: [op, c, d, p, ret]
    curve,         \* the EllipticCurve the curve calls are made on
    e_call,        \* last EllipticCurve call: [op, c, d, k, ret]
    pc,            \* position in the sign/verify session
    private_key,
    public_key,
    hash,
    k_random,
    signature,
    v_hash,        \* hash handed to verify
    v_signature,   \* signature handed to verify
    result,        \* what verify returned
    hash_call,     \* last generate_hash_less_than call: [op, digest, max, ret]
    sign_call,     \* last sign call on arbitrary scalars: [op, hash, private_key, k_random, ret]
    sm_run         \* a run of scalar_multiplication, one loop step at a time:
                   \* [pc, a, d, t, i, iterations]

vars == <<f_call, curve, e_call, pc, private_key, public_key, hash, k_random,
          signature, v_hash, v_signature, result, hash_call, sign_call, sm_run>>

f_vars == <<f_call>>
e_vars == <<curve, e_call>>
s_vars == <<pc, private_key, public_key, hash, k_random, signature, v_hash,
            v_signature, result>>
x_vars == <<hash_call, sign_call, sm_run>>

NoFieldCall == [op |-> "none", c |-> 0, d |-> 0, p |-> 1, ret |-> 0]
NoCurveCall == [op |-> "none", c |-> Identity, d |-> Identity, k |-> 0, ret |-> Identity]
NoHashCall == [op |-> "none", digest |-> 0, max |-> 0, ret |-> 0]
NoSignCall == [op |-> "none", hash |-> 0, private_key |-> 0, k_random |-> 0, ret |-> <<0, 0>>]
NoRun == [pc |-> "idle", a |-> Identity, d |-> 0, t |-> Identity, i |-> 0, iterations |-> 0]

Init ==
    /\ f_call = NoFieldCall
    /\ curve \in Curves
    /\ e_call = NoCurveCall
    /\ pc = "new"
    /\ private_key = 0
    /\ public_key = Identity
    /\ hash = 0
    /\ k_random = 0
    /\ signature = <<0, 0>>
    /\ v_hash = 0
    /\ v_signature = <<0, 0>>
    /\ result = "none"
    /\ hash_call = NoHashCall
    /\ sign_call = NoSignCall
    /\ sm_run = NoRun

(***************************************************************************)
(* Field layer: one action per function of FiniteField.                    *)
(***************************************************************************)
\* the functions are pure: a behaviour makes one call and records its result
FieldCall(op, c, d, p, ret) ==
    /\ f_call' = [op |-> op, c |-> c, d |-> d, p |-> p, ret |-> ret]
    /\ UNCHANGED <<e_vars, s_vars, x_vars>>

CallAdd ==
    /\ f_call = NoFieldCall
    /\ \E p \in 1..MaxModulus, c \in 0..MaxModulus, d \in 0..MaxModulus :
          FieldCall("add", c, d, p, FiniteField_add(c, d, p))

CallMultiplication ==
    /\ f_call = NoFieldCall
    /\ \E p \in 1..MaxModulus, c \in 0..MaxModulus, d \in 0..MaxModulus :
          FieldCall("multiplication", c, d, p, FiniteField_multiplication(c, d, p))

CallInverseAddition ==
    /\ f_call = NoFieldCall
    /\ \E p \in 1..MaxModulus, c \in 0..MaxModulus :
          FieldCall("inverse_addition", c, 0, p, FiniteField_inverse_addition(c, p))

CallSubtract ==
    /\ f_call = NoFieldCall
    /\ \E p \in 1..MaxModulus, c \in 0..MaxModulus, d \in 0..MaxModulus :
          FieldCall("subtract", c, d, p, FiniteField_subtract(c, d, p))

CallInverseMultiplication ==
    /\ f_call = NoFieldCall
    /\ \E p \in 1..MaxModulus, c \in 0..MaxModulus :
          FieldCall("inverse_multiplication", c, 0, p, FiniteField_inverse_multiplication(c, p))

CallDivide ==
    /\ f_call = NoFieldCall
    /\ \E p \in 1..MaxModulus, c \in 0..MaxModulus, d \in 0..MaxModulus :
          FieldCall("divide", c, d, p, FiniteField_divide(c, d, p))

NextField ==
    \/ CallAdd
    \/ CallMultiplication
    \/ CallInverseAddition
    \/ CallSubtract
    \/ CallInverseMultiplication
    \/ CallDivide

\* the field layer and the sessions do not depend on the curve explored
InitToy == Init /\ curve = ToyCurve

SpecField == InitToy /\ [][NextField]_vars

(***************************************************************************)
(* Curve layer: one action per public method of EllipticCurve.             *)
(***************************************************************************)
CurveCall(op, c, d, k, ret) ==
    /\ e_call' = [op |-> op, c |-> c, d |-> d, k |-> k, ret |-> ret]
    /\ UNCHANGED <<f_vars, curve, s_vars, x_vars>>

CallCurveAdd ==
    /\ e_call = NoCurveCall
    /\ \E c \in Points(curve), d \in Points(curve) :
          CurveCall("add", c, d, 0, EllipticCurve_add(curve, c, d))

CallDouble ==
    /\ e_call = NoCurveCall
    /\ \E c \in Points(curve) :
          CurveCall("double", c, Identity, 0, EllipticCurve_double(curve, c))

CallScalarMultiplication ==
    /\ e_call = NoCurveCall
    /\ \E a \in Points(curve), d \in 0..MaxScalar :
          CurveCall("scalar_multiplication", a, Identity, d,
                    scalar_multiplication(curve, a, d))

\* double as src/lib.rs defines it
CallLibDouble ==
    /\ e_call = NoCurveCall
    /\ \E c \in Points(curve) :
          CurveCall("lib_double", c, Identity, 0, lib_EllipticCurve_double(curve, c))

\* ret is "true", "false" or "panic"
CallIsOnCurve ==
    /\ e_call = NoCurveCall
    /\ \E c \in Points(curve) :
          CurveCall("is_on_curve", c, Identity, 0, is_on_curve(curve, c))

NextCurve ==
    \/ CallCurveAdd
    \/ CallDouble
    \/ CallScalarMultiplication
    \/ CallLibDouble
    \/ CallIsOnCurve

SpecCurve == Init /\ [][NextCurve]_vars

(***************************************************************************)
(* ECDSA layer: the session of the tests on the toy context.  The private  *)
(* key and the nonce are drawn from [1, q) as generate_private_key does,   *)
(* the hash from [1, q) as generate_hash_less_than returns it.             *)
(***************************************************************************)
GeneratePublicKey ==
    /\ pc = "new"
    /\ curve = ToyCurve    \* the sessions run on the toy context
    /\ \E d \in 1..(ToyQ - 1) :
          /\ private_key' = d
          /\ public_key' = generate_public_key(ToyECDSA, d)
    /\ pc' = "keyed"
    /\ UNCHANGED <<f_vars, e_vars, x_vars, hash, k_random, signature, v_hash,
                   v_signature, result>>

Sign ==
    /\ pc = "keyed"
    /\ \E h \in 1..(ToyQ - 1), k \in 1..(ToyQ - 1) :
          /\ hash' = h
          /\ k_random' = k
          /\ signature' = sign(ToyECDSA, h, private_key, k)
    /\ pc' = "signed"
    /\ UNCHANGED <<f_vars, e_vars, x_vars, private_key, public_key, v_hash,
                   v_signature, result>>

Verified(step, h, sig) ==
    /\ v_hash' = h
    /\ v_signature' = sig
    /\ result' = verify(ToyECDSA, h, public_key, sig)
    /\ pc' = step
    /\ UNCHANGED <<f_vars, e_vars, x_vars, private_key, public_key, hash, k_random,
                   signature>>

\* test_sign_verify
Verify ==
    /\ pc = "signed"
    /\ Verified("verified", hash, signature)

\* test_sign_verify_tampered_message: the hash of another message
VerifyTamperedMessage ==
    /\ pc = "signed"
    /\ \E h \in (1..(ToyQ - 1)) \ {hash} :
          Verified("verified_tampered_message", h, signature)

\* test_sign_verify_tampered_signature: r replaced by (r + 1) mod q
VerifyTamperedSignature ==
    /\ pc = "signed"
    /\ Verified("verified_tampered_signature", hash,
                IF signature = PanicSignature THEN PanicSignature
                ELSE <<FiniteField_add(signature[1], 1, ToyQ), signature[2]>>)

NextECDSA ==
    \/ GeneratePublicKey
    \/ Sign
    \/ Verify
    \/ VerifyTamperedMessage
    \/ VerifyTamperedSignature

SpecECDSA == InitToy /\ [][NextECDSA]_vars

(***************************************************************************)
(* generate_hash_less_than on any digest and any max.                      *)
(***************************************************************************)
CallGenerateHashLessThan ==
    /\ hash_call = NoHashCall
    /\ \E digest \in 0..MaxDigest, max \in 0..MaxOrder :
          /\ hash_call' = [op |-> "generate_hash_less_than", digest |-> digest,
                           max |-> max, ret |-> generate_hash_less_than(digest, max)]
          /\ UNCHANGED <<f_vars, e_vars, s_vars, sign_call, sm_run>>

NextHash == CallGenerateHashLessThan

SpecHash == InitToy /\ [][NextHash]_vars

(***************************************************************************)
(* sign on the toy context with scalars a caller can pass: 0..q + 1.       *)
(***************************************************************************)
CallSign ==
    /\ sign_call = NoSignCall
    /\ \E h \in 0..(ToyQ + 1), d \in 0..(ToyQ + 1), k \in 0..(ToyQ + 1) :
          /\ sign_call' = [op |-> "sign", hash |-> h, private_key |-> d,
                           k_random |-> k, ret |-> sign(ToyECDSA, h, d, k)]
          /\ UNCHANGED <<f_vars, e_vars, s_vars, hash_call, sm_run>>

NextSign == CallSign

SpecSign == InitToy /\ [][NextSign]_vars

(***************************************************************************)
(* scalar_multiplication step by step: the seed T = A, then per iteration  *)
(* the doubling and the conditional add.  pc is "double" before the        *)
(* doubling of iteration i, "bit" between the doubling and the bit test,   *)
(* "done" when the loop has ended and T is returned, "panic" when a call   *)
(* did not return.                                                         *)
(***************************************************************************)
StartScalarMultiplication ==
    /\ sm_run = NoRun
    /\ \E a \in Points(curve), d \in 0..MaxScalar :
          sm_run' = [pc |-> IF bits(d) = 0 THEN "panic"
                            ELSE IF bits(d) - 2 >= 0 THEN "double" ELSE "done",
                     a |-> a, d |-> d, t |-> a, i |-> bits(d) - 2, iterations |-> 0]
    /\ UNCHANGED <<f_vars, e_vars, s_vars, hash_call, sign_call>>

\* slip: the accumulator is not doubled
LoopDouble_without_doubling ==
    /\ sm_run.pc = "double"
    /\ sm_run' = [sm_run EXCEPT !.pc = "bit"]
    /\ UNCHANGED <<f_vars, e_vars, s_vars, hash_call, sign_call>>

\* t = self.double(&t)
LoopDouble ==
    /\ sm_run.pc = "double"
    /\ LET doubled == EllipticCurve_double(curve, sm_run.t)
       IN  sm_run' = [sm_run EXCEPT !.t = doubled,
                                    !.pc = IF doubled = PanicPoint THEN "panic" ELSE "bit"]
    /\ UNCHANGED <<f_vars, e_vars, s_vars, hash_call, sign_call>>

\* if d.bit(i) { t = self.add(&t, a) }, then the next i
LoopAdd ==
    /\ sm_run.pc = "bit"
    /\ LET added == IF bit(sm_run.d, sm_run.i)
                    THEN EllipticCurve_add(curve, sm_run.t, sm_run.a)
                    ELSE sm_run.t
       IN  sm_run' = [sm_run EXCEPT !.t = added,
                                    !.i = sm_run.i - 1,
                                    !.iterations = sm_run.iterations + 1,
                                    !.pc = IF added = PanicPoint THEN "panic"
                                           ELSE IF sm_run.i - 1 >= 0 THEN "double"
                                           ELSE "done"]
    /\ UNCHANGED <<f_vars, e_vars, s_vars, hash_call, sign_call>>

NextLoop ==
    \/ StartScalarMultiplication
    \/ LoopDouble
    \/ LoopAdd

SpecLoop == InitToy /\ [][NextLoop]_vars

Next == NextField \/ NextCurve \/ NextECDSA \/ NextHash \/ NextSign \/ NextLoop

Spec == Init /\ [][Next]_vars

(***************************************************************************)
(* Reference: the group law of a short-Weierstrass curve over F_p in plain *)
(* modular arithmetic, and d * P as P added to itself d times.             *)
(***************************************************************************)
ModInverse(z, p) == CHOOSE w \in 0..(p - 1) : (z * w) % p = 1 \/ (z % p = 0 /\ w = 0)

GroupLaw(self, P, Q) ==
    IF P = Identity THEN Q
    ELSE IF Q = Identity THEN P
    ELSE IF P.x = Q.x /\ (P.y + Q.y) % self.p = 0 THEN Identity
    ELSE LET p == self.p
             s == IF P = Q
                  THEN ((3 * P.x * P.x + self.a) * ModInverse(2 * P.y, p)) % p
                  ELSE ((Q.y + p - P.y) * ModInverse(Q.x + p - P.x, p)) % p
             x3 == (s * s + 2 * p - P.x - Q.x) % p
             y3 == (s * (P.x + p - x3) + p - P.y) % p
         IN  Coordinate(x3, y3)

RECURSIVE RepeatedAddition(_, _, _)
RepeatedAddition(self, P, n) ==
    IF n = 1 THEN P ELSE GroupLaw(self, RepeatedAddition(self, P, n - 1), P)

(***************************************************************************)
(* Claims.                                                                 *)
(***************************************************************************)

\* C1: on the toy context, for every private key d, nonce k and hash h in
\* [1, q), verify(h, d * A, sign(h, d, k)) completes and returns true.
C1_SignVerifyRoundTrip ==
    pc = "verified" => result = "true"

\* C2: on the toy context, verifying a signature of h against any other hash
\* h' in [1, q) returns false: it neither returns true nor aborts.
C2_TamperedMessageRejected ==
    pc = "verified_tampered_message" => result = "false"

\* C3: on the toy context, verifying ((r + 1) mod q, s) in place of the
\* signature (r, s) of h returns false: it neither returns true nor aborts.
C3_TamperedSignatureRejected ==
    pc = "verified_tampered_signature" => result = "false"

\* C4: on the toy curve, scalar_multiplication(A, d) returns, for every d in
\* [1, 18], the point obtained by adding A to itself d times under the group
\* law, without aborting.
C4_ScalarMultiplicationIsRepeatedAddition ==
    (/\ e_call.op = "scalar_multiplication"
     /\ curve = ToyCurve
     /\ e_call.c = ToyGenerator
     /\ e_call.k \in 1..(ToyQ - 1))
        => e_call.ret = RepeatedAddition(ToyCurve, ToyGenerator, e_call.k)

\* C5: on the toy curve, multiplying the generator by the subgroup order
\* yields the identity: scalar_multiplication(A, q) = Identity.
C5_SubgroupOrder ==
    (/\ e_call.op = "scalar_multiplication"
     /\ curve = ToyCurve
     /\ e_call.c = ToyGenerator
     /\ e_call.k = ToyQ)
        => e_call.ret = Identity

C5_Witness ==
    /\ e_call.op = "scalar_multiplication"
    /\ curve = ToyCurve
    /\ e_call.c = ToyGenerator
    /\ e_call.k = ToyQ
    /\ e_call.ret = Identity

\* C6: for every prime p and all c, d in [0, p), add, subtract,
\* multiplication and (when d # 0) divide return a value in [0, p), with
\* add = (c + d) mod p, subtract = (c - d) mod p, multiplication = (c * d) mod p.
C6_FieldClosure ==
    (/\ IsPrime(f_call.p)
     /\ f_call.c < f_call.p
     /\ f_call.d < f_call.p)
        => /\ f_call.op = "add" => f_call.ret = (f_call.c + f_call.d) % f_call.p
           /\ f_call.op = "subtract" =>
                  f_call.ret = (f_call.c + f_call.p - f_call.d) % f_call.p
           /\ f_call.op = "multiplication" => f_call.ret = (f_call.c * f_call.d) % f_call.p
           /\ (f_call.op = "divide" /\ f_call.d # 0) => f_call.ret \in 0..(f_call.p - 1)

\* C7: for every modulus p and every c in [0, p), c = 0 included,
\* add(c, inverse_addition(c, p), p) returns 0.
C7_AdditiveInverse ==
    (f_call.op = "inverse_addition" /\ f_call.c < f_call.p)
        => FiniteField_add(f_call.c, f_call.ret, f_call.p) = 0

\* C8: for every prime p and every c in [1, p),
\* multiplication(c, inverse_multiplication(c, p), p) = 1 and divide(c, c, p) = 1.
C8_MultiplicativeInverse ==
    /\ (/\ f_call.op = "inverse_multiplication"
        /\ IsPrime(f_call.p)
        /\ f_call.c \in 1..(f_call.p - 1))
           => FiniteField_multiplication(f_call.c, f_call.ret, f_call.p) = 1
    /\ (/\ f_call.op = "divide"
        /\ IsPrime(f_call.p)
        /\ f_call.c \in 1..(f_call.p - 1)
        /\ f_call.d = f_call.c)
           => f_call.ret = 1

C8_Witness ==
    /\ f_call.op = "inverse_multiplication"
    /\ f_call.p = 7
    /\ f_call.c = 3
    /\ f_call.ret = 5

\* C9: for every modulus p and every c in [0, p), inverse_addition(c, p)
\* returns a value in [0, p); in particular inverse_addition(0, p) = 0.
C9_NegationRange ==
    (f_call.op = "inverse_addition" /\ f_call.c < f_call.p)
        => /\ f_call.ret \in 0..(f_call.p - 1)
           /\ f_call.c = 0 => f_call.ret = 0

\* C10: for all points P, Q that satisfy is_on_curve (Identity included) and
\* every scalar k >= 1, a point returned by add(P, Q), double(P) or
\* scalar_multiplication(P, k) satisfies is_on_curve and, when it is a
\* Coordinate(x, y), has 0 <= x, y < p.
C10_CurveClosure ==
    (/\ e_call.op \in {"add", "double", "scalar_multiplication"}
     /\ is_on_curve(curve, e_call.c) = "true"
     /\ e_call.op = "add" => is_on_curve(curve, e_call.d) = "true"
     /\ e_call.op = "scalar_multiplication" => e_call.k >= 1
     /\ e_call.ret.tag # "Panic")
        => /\ is_on_curve(curve, e_call.ret) = "true"
           /\ e_call.ret.tag = "Coordinate" =>
                  (e_call.ret.x < curve.p /\ e_call.ret.y < curve.p)

\* whether a point is a Coordinate with both components in [0, p) that
\* satisfies y^2 = x^3 + a*x + b (mod p), or is Identity
OnCurve(self, P) ==
    \/ P = Identity
    \/ /\ P.tag = "Coordinate"
       /\ P.x \in 0..(self.p - 1)
       /\ P.y \in 0..(self.p - 1)
       /\ (P.y * P.y) % self.p = (P.x * P.x * P.x + self.a * P.x + self.b) % self.p

\* whether a point is a Coordinate that does not satisfy the curve equation
OffCurve(self, P) ==
    /\ P.tag = "Coordinate"
    /\ (P.y * P.y) % self.p # (P.x * P.x * P.x + self.a * P.x + self.b) % self.p

\* C11: for every on-curve point P, Identity included, add(Identity, P) = P
\* and add(P, Identity) = P; and double(Identity) = Identity.
C11_GroupIdentity ==
    /\ (e_call.op = "add" /\ OnCurve(curve, e_call.c) /\ OnCurve(curve, e_call.d))
           => /\ e_call.c = Identity => e_call.ret = e_call.d
              /\ e_call.d = Identity => e_call.ret = e_call.c
    /\ (e_call.op = "double" /\ e_call.c = Identity) => e_call.ret = Identity

\* C12: for every digest H >= 0 and every max = q >= 3,
\* generate_hash_less_than returns H mod (q - 1) + 1, a value h with
\* 1 <= h <= q - 1, which therefore passes the `hash < q_order` assertion of
\* sign and verify.
C12_HashRange ==
    (hash_call.op = "generate_hash_less_than" /\ hash_call.max >= 3)
        => /\ hash_call.ret = (hash_call.digest % (hash_call.max - 1)) + 1
           /\ hash_call.ret \in 1..(hash_call.max - 1)
           /\ hash_call.ret < hash_call.max

\* a digest above max whose reduction wraps: 40 mod 18 + 1 = 5
C12_Witness ==
    /\ hash_call.op = "generate_hash_less_than"
    /\ hash_call.digest = 40
    /\ hash_call.max = ToyQ
    /\ hash_call.ret = 5

\* C13: on the toy context, for every h, d, k in [1, q), whenever
\* sign(h, d, k) returns (r, s), both r and s lie in [1, q).
C13_SignatureRange ==
    (pc = "signed" /\ signature # PanicSignature)
        => /\ signature[1] \in 1..(ToyQ - 1)
           /\ signature[2] \in 1..(ToyQ - 1)

\* C14 as stated: for all on-curve Coordinate points C = (x1, y1) and
\* D = (x2, y2) with x1 = x2 and (y1 + y2) mod p = 0, add(C, D) returns
\* Identity, the case C = D = (x, 0) included.
C14_InversePointsAddToIdentity ==
    (/\ e_call.op = "add"
     /\ e_call.c.tag = "Coordinate" /\ e_call.d.tag = "Coordinate"
     /\ OnCurve(curve, e_call.c) /\ OnCurve(curve, e_call.d)
     /\ e_call.c.x = e_call.d.x
     /\ (e_call.c.y + e_call.d.y) % curve.p = 0)
        => e_call.ret = Identity

\* C14 amended: for all Coordinate points C = (x1, y1) and D = (x2, y2) that
\* is_on_curve accepts, with x1 = x2 and (y1 + y2) mod p = 0, add(C, D)
\* returns Identity when C # D and y1, y2 < p, and aborts otherwise: C = D
\* (which is (x, 0) or has a y >= p) fails the equal-points assertion, which
\* precedes the inverse test, and a y >= p fails the field addition.
C14_InversePointsAddToIdentityUnlessEqual ==
    (/\ e_call.op = "add"
     /\ e_call.c.tag = "Coordinate" /\ e_call.d.tag = "Coordinate"
     /\ is_on_curve(curve, e_call.c) = "true"
     /\ is_on_curve(curve, e_call.d) = "true"
     /\ e_call.c.x = e_call.d.x
     /\ (e_call.c.y + e_call.d.y) % curve.p = 0)
        => e_call.ret = IF /\ e_call.c # e_call.d
                           /\ e_call.c.y < curve.p
                           /\ e_call.d.y < curve.p
                        THEN Identity
                        ELSE PanicPoint

\* add((3, 1), (3, 6)) = Identity on y^2 = x^3 + 2x + 3 over F_7
C14_Witness ==
    /\ curve = EllipticCurve_new(2, 3, 7)
    /\ e_call.op = "add"
    /\ e_call.c = Coordinate(3, 1)
    /\ e_call.d = Coordinate(3, 6)
    /\ e_call.ret = Identity

\* C15: add(C, D), double(C) and scalar_multiplication(P, d) for every
\* d >= 1, d = 1 included, abort instead of returning a point whenever one
\* of their point arguments is a Coordinate that does not satisfy
\* y^2 = x^3 + a*x + b (mod p).
C15_OnCurveInputAssertion ==
    /\ (e_call.op = "add" /\ (OffCurve(curve, e_call.c) \/ OffCurve(curve, e_call.d)))
           => e_call.ret = PanicPoint
    /\ (e_call.op = "double" /\ OffCurve(curve, e_call.c))
           => e_call.ret = PanicPoint
    /\ (e_call.op = "scalar_multiplication" /\ e_call.k >= 1 /\ OffCurve(curve, e_call.c))
           => e_call.ret = PanicPoint

\* C16: on the toy curve, for a generator A of order q (A = (5, 1) and every
\* other point of the group but Identity) and every scalar d with
\* 1 <= d < q, no iteration of scalar_multiplication(A, d) calls add(T, A)
\* with T = A.
C16_NoEqualPointAddition ==
    (/\ sm_run.pc = "bit"
     /\ OnCurve(curve, sm_run.a) /\ sm_run.a # Identity
     /\ sm_run.d \in 1..(ToyQ - 1)
     /\ bit(sm_run.d, sm_run.i))
        => sm_run.t # sm_run.a

\* scalar_multiplication(A, 11) about to call add(10A, A) in its last iteration
C16_Witness ==
    /\ sm_run.pc = "bit"
    /\ sm_run.a = ToyGenerator
    /\ sm_run.d = 11
    /\ sm_run.i = 0
    /\ sm_run.t = Coordinate(7, 11)

\* C17: in scalar_multiplication(A, d) with d >= 1 and n = bits(d), the loop
\* runs i = n-2 down to 0; at the start of iteration i the accumulator T is
\* (d >> (i+1)) * A, at its end T is (d >> i) * A; the loop runs exactly n-1
\* iterations and then returns T = d * A.
C17_DoubleAndAddInvariant ==
    (sm_run.a = ToyGenerator /\ sm_run.d >= 1)
        => /\ sm_run.pc # "panic"
           /\ sm_run.pc = "double" =>
                  /\ sm_run.i \in 0..(bits(sm_run.d) - 2)
                  /\ sm_run.i = bits(sm_run.d) - 2 - sm_run.iterations
                  /\ sm_run.t = RepeatedAddition(curve, sm_run.a,
                                                 sm_run.d \div Pow2(sm_run.i + 1))
           /\ sm_run.pc = "done" =>
                  /\ sm_run.iterations = bits(sm_run.d) - 1
                  /\ sm_run.t = RepeatedAddition(curve, sm_run.a, sm_run.d)

\* C18: on a curve over F_p with p > 3, for every on-curve Coordinate(x, 0)
\* double returns Identity, and for every other on-curve Coordinate(x, y)
\* double returns the tangent-rule point (x3, y3) with s = (3x^2 + a)/(2y),
\* x3 = s^2 - 2x, y3 = s(x - x3) - y (all mod p).
C18_Doubling ==
    (/\ e_call.op \in {"double", "lib_double"}
     /\ curve.p > 3
     /\ e_call.c.tag = "Coordinate"
     /\ OnCurve(curve, e_call.c))
        => e_call.ret = GroupLaw(curve, e_call.c, e_call.c)

\* C19: sign(h, d, k) returns no signature whenever any of h, d, k is 0 or
\* is >= q.
C19_SignPreconditions ==
    (/\ sign_call.op = "sign"
     /\ \/ sign_call.hash \notin 1..(ToyQ - 1)
        \/ sign_call.private_key \notin 1..(ToyQ - 1)
        \/ sign_call.k_random \notin 1..(ToyQ - 1))
        => sign_call.ret = PanicSignature

\* C20: is_on_curve(Coordinate(x, y)) returns true only if 0 <= x < p and
\* 0 <= y < p, so add and double return no point when an argument is a
\* Coordinate with x >= p or y >= p.
C20_CoordinateRange ==
    LET InRange(P) == P.tag = "Coordinate" => (P.x < curve.p /\ P.y < curve.p)
    IN  /\ (e_call.op = "is_on_curve" /\ e_call.ret = "true") => InRange(e_call.c)
        /\ (e_call.op = "add" /\ e_call.ret # PanicPoint)
               => (InRange(e_call.c) /\ InRange(e_call.d))
        /\ (e_call.op = "double" /\ e_call.ret # PanicPoint) => InRange(e_call.c)

====
